---- MODULE Spec2Model ----
(***************************************************************************)
(* Keyed list reconciler of mutable-element (list() in actions.ts) over    *)
(* the Span abstraction DynamicRange (range.ts).                           *)
(*                                                                         *)
(* The children of the parent node that holds the list are one sequence   *)
(* of nodes, dom.  A node is a record [t, r, v]: t is the kind ("start"   *)
(* and "end" are the two comment markers of Span r, "el" an element,      *)
(* "text" a text node, "sib" a sibling outside the list), r the Span the  *)
(* node was created for (0 is the list's root Span) and v the list value  *)
(* it was produced from.  A Span object is named by a number; a value     *)
(* object is named by its key and a version, so that two values with the  *)
(* same key are different references.                                     *)
(***************************************************************************)
EXTENDS Integers, Sequences, FiniteSets, TLC

\* Longest list the model lets data grow to.
MaxLen == 3
\* Longest values/keys argument of append, prepend, appendUnique,
\* prependUnique and remove.
MaxVals == 2

\* The number of promises of the renderer that are outstanding at a time.
MaxPending == 2

\* The number of calls one Reactor receives.
MaxCalls == 4

VARIABLES
  renderer,  \* the ListRenderer capability, one of Renderers
  data,      \* the records, Seq of [value, range]
  dom,       \* the child nodes of the parent that holds the root Span
  call,      \* the list operation that has just run, or NoCall
  pre,       \* data and dom as they were when that operation was called
  log,       \* what that operation did: renderer calls, Spans made, deleted, moved
  cleared,   \* <<n>> when the operation that returned last was a clear() of n records

  ev,        \* the eval(...) in progress: its arguments, generators and effects
  sp,        \* one Span among the children of a parent, and its last operation
  rv,        \* one value-resolution chain: its target, frames and effects
  pending,   \* the renderer's promises that have not settled: [r, v, moved]
  rx,        \* one Reactor: its fields and the calls it has received
  dv         \* one value handed to mutate and to mutateRange, and the case each took

vars == <<renderer, data, dom, call, pre, log, cleared, ev, sp, rv, pending, rx, dv>>

----------------------------------------------------------------------------
(* Values, keys and nodes *)

Val(k, n) == [key |-> k, ver |-> n]
NoValue == Val("-", 0)
\* The key "" is a legal string key; "A" exists as two different references.
Values == {Val("", 1), Val("A", 1), Val("A", 2), Val("B", 1)}
Keys == {v.key : v \in Values}
NoRef == "<undefined>"

Node(t, r, v) == [t |-> t, r |-> r, v |-> v]
StartOf(r) == Node("start", r, NoValue)
EndOf(r) == Node("end", r, NoValue)
Root == 0
SibBefore == Node("sib", 1, NoValue)
SibAfter == Node("sib", 2, NoValue)

\* KeyedListRenderer.extractKey
extractKey(v) == v.key

----------------------------------------------------------------------------
(* Sequences *)

RECURSIVE SeqsUpTo(_, _)
SeqsUpTo(S, n) ==
  IF n = 0 THEN {<<>>}
  ELSE LET shorter == SeqsUpTo(S, n - 1)
       IN shorter \cup {Append(s, x) : s \in {q \in shorter : Len(q) = n - 1}, x \in S}

Elems(s) == {s[i] : i \in 1..Len(s)}

\* Array.prototype.splice(i, 1) and splice(i, 0, x...), 1-based
RemoveAt(s, i) == SubSeq(s, 1, i - 1) \o SubSeq(s, i + 1, Len(s))
InsertSeqAt(s, i, xs) == SubSeq(s, 1, i - 1) \o xs \o SubSeq(s, i, Len(s))

\* first index >= from whose element satisfies the key test, 0 when none
RECURSIVE ScanFrom(_, _, _)
ScanFrom(d, key, from) ==
  IF from > Len(d) THEN 0
  ELSE IF extractKey(d[from].value) = key THEN from
  ELSE ScanFrom(d, key, from + 1)

\* data.findIndex((x) => renderer.extractKey(x.value) === key)
findIndex(d, key) == ScanFrom(d, key, 1)

\* position of a node among the children, 0 when it is not a child
RECURSIVE PosFrom(_, _, _)
PosFrom(s, n, i) ==
  IF i > Len(s) THEN 0 ELSE IF s[i] = n THEN i ELSE PosFrom(s, n, i + 1)
Pos(s, n) == PosFrom(s, n, 1)

----------------------------------------------------------------------------
(* DynamicRange over the children sequence d *)

\* DynamicRange.parentNode is not null: the start marker is a child
parentNode(d, r) == Pos(d, StartOf(r)) # 0

\* DynamicRange.static.deleteContents(): drop what lies strictly between
\* the two markers
deleteContents(d, r) ==
  LET s == Pos(d, StartOf(r))
      e == Pos(d, EndOf(r))
  IN SubSeq(d, 1, s) \o SubSeq(d, e, Len(d))

\* DynamicRange.childNodes: the nodes strictly between the markers
childNodes(d, r) ==
  LET s == Pos(d, StartOf(r))
      e == Pos(d, EndOf(r))
  IN SubSeq(d, s + 1, e - 1)

\* delete() that removes the two markers and leaves the contents
rangeDeleteMarkersOnly(d, r) ==
  SelectSeq(d, LAMBDA n : n # StartOf(r) /\ n # EndOf(r))

\* DynamicRange.delete(): nothing without a parent, else contents and
\* both markers go
rangeDelete(d, r) ==
  IF ~parentNode(d, r) THEN d
  ELSE LET s == Pos(d, StartOf(r))
           e == Pos(d, EndOf(r))
       IN SubSeq(d, 1, s - 1) \o SubSeq(d, e + 1, Len(d))

\* DynamicRange.detach() on an attached Span: start through end leave the
\* parent and come back as one fragment, in order
rangeDetach(d, r) ==
  LET s == Pos(d, StartOf(r))
      e == Pos(d, EndOf(r))
  IN [frag |-> SubSeq(d, s, e),
      rest |-> SubSeq(d, 1, s - 1) \o SubSeq(d, e + 1, Len(d))]

\* parent.insertBefore(fragment, point), point being a child
insertBefore(d, frag, point) == InsertSeqAt(d, Pos(d, point), frag)

----------------------------------------------------------------------------
(* The renderer and the value resolver *)

\* What the renderer hands back (a MutateAction).  Two renderers are
\* modelled: one that renders an element and has no update, and one that
\* renders a primitive and has an update that returns the new primitive.
\* "bad" holds the items for which render and update raise (none here).
PlainRenderer == [hasUpdate |-> FALSE, result |-> "node", bad |-> {}]
Renderers == {PlainRenderer,
              [hasUpdate |-> TRUE, result |-> "text", bad |-> {}]}
RenderResult(item, r) ==
  [kind |-> renderer.result,
   node |-> Node(IF renderer.result = "node" THEN "el" ELSE "text", r, item)]
UpdateResult(item, r) ==
  [kind |-> IF renderer.result = "promise" THEN "promise" ELSE "text",
   node |-> Node("text", r, item)]

\* the primitive case without "ctx.static.deleteContents()"
mutateRangeKeepsContents(d, r, ret) ==
  IF ret.kind \in {"null", "promise"} THEN d
  ELSE IF Pos(d, EndOf(r)) = 0 \/ Pos(d, StartOf(r)) = 0 THEN d
  ELSE insertBefore(d, <<ret.node>>, EndOf(r))

\* mutant: content for a Span that is no child any more goes to the end of
\* the root Span
mutateRangeIntoRoot(d, r, ret) ==
  IF ret.kind \in {"null", "promise"} THEN d
  ELSE IF Pos(d, EndOf(r)) = 0 \/ Pos(d, StartOf(r)) = 0
  THEN insertBefore(d, <<ret.node>>, EndOf(Root))
  ELSE IF ret.kind = "node" THEN insertBefore(d, <<ret.node>>, EndOf(r))
  ELSE insertBefore(deleteContents(d, r), <<ret.node>>, EndOf(r))

\* mutant: the content is inserted after the end marker
mutateRangeAfterSpan(d, r, ret) ==
  IF ret.kind \in {"null", "promise"} THEN d
  ELSE IF Pos(d, EndOf(r)) = 0 \/ Pos(d, StartOf(r)) = 0 THEN d
  ELSE IF ret.kind = "node" THEN InsertSeqAt(d, Pos(d, EndOf(r)) + 1, <<ret.node>>)
  ELSE InsertSeqAt(deleteContents(d, r), Pos(deleteContents(d, r), EndOf(r)) + 1, <<ret.node>>)

\* mutateRange(ctx, ret), the cases that complete without suspending; a
\* promise changes nothing until it settles (the action deliver).
\* A missing parent of ctx.end raises inside the async function: the
\* promise rejects, the tree is left as it was.
mutateRange(d, r, ret) ==
  IF ret.kind \in {"null", "promise"} THEN d
  ELSE IF Pos(d, EndOf(r)) = 0 \/ Pos(d, StartOf(r)) = 0 THEN d
  ELSE IF ret.kind = "node" THEN insertBefore(d, <<ret.node>>, EndOf(r))
  ELSE insertBefore(deleteContents(d, r), <<ret.node>>, EndOf(r))

\* namedRange(name, content): the fragment start, content, end
namedRange(r, ret) == mutateRange(<<StartOf(r), EndOf(r)>>, r, ret)

----------------------------------------------------------------------------
(* list(): the operations on the records.  An operation works on         *)
(* st = [data, dom, log, next, threw]: next names the next Span object,  *)
(* threw tells that an exception is propagating to the caller.           *)

Ev(e, r, v, old) == [e |-> e, r |-> r, v |-> v, old |-> old]
Packed(v, r) == [value |-> v, range |-> r]

\* get data(): data.map((x) => x.value), a new array each time
ValuesOf(d) == [j \in 1..Len(d) |-> d[j].value]
RangesOf(d) == [j \in 1..Len(d) |-> d[j].range]
KeysOf(d) == {extractKey(d[j].value) : j \in 1..Len(d)}

\* insertAt(item, point); the new Span is st.next.  renderer.render(item)
\* is an argument of namedRange: when it raises, no Span is made and the
\* exception leaves insertAt.
insertAt(st, item, point) ==
  LET r == st.next
      called == [st EXCEPT !.log = Append(@, Ev("render", r, item, NoValue)),
                           !.next = r + 1]
  IN IF item \in renderer.bad \/ Pos(st.dom, point) = 0
     THEN [called EXCEPT !.threw = TRUE]
     ELSE [called EXCEPT
             !.dom = insertBefore(@, namedRange(r, RenderResult(item, r)), point)]

\* the loop "for (const item of value) { insertAt(item, pivot);
\* newlist.push(...) }" of appendData and prependData
RECURSIVE InsertBlock(_, _, _, _, _)
InsertBlock(st, value, pivot, k, newlist) ==
  IF k > Len(value) \/ st.threw THEN [st |-> st, newlist |-> newlist]
  ELSE InsertBlock(insertAt(st, value[k], pivot), value, pivot, k + 1,
                   Append(newlist, Packed(value[k], st.next)))

SpliceBlock(st, value, pivot, at) ==
  LET b == InsertBlock(st, value, pivot, 1, <<>>)
  IN IF b.st.threw THEN b.st
     ELSE [b.st EXCEPT !.data = InsertSeqAt(@, at, b.newlist)]

\* the tail loop of appendData: insertAt(item, root.end); data.push(...)
RECURSIVE PushEach(_, _, _)
PushEach(st, value, k) ==
  IF k > Len(value) \/ st.threw THEN st
  ELSE LET ins == insertAt(st, value[k], EndOf(Root))
       IN PushEach(IF ins.threw THEN ins
                   ELSE [ins EXCEPT !.data = Append(@, Packed(value[k], st.next))],
                   value, k + 1)

\* "if (ref)": undefined and the empty string are both falsy
Truthy(ref) == ref # NoRef /\ ref # ""

appendData(st, value, ref) ==
  LET idx == IF Truthy(ref) THEN findIndex(st.data, ref) ELSE 0
  IN IF idx # 0
     THEN SpliceBlock(st, value,
                      IF idx + 1 <= Len(st.data)
                      THEN StartOf(st.data[idx + 1].range) ELSE EndOf(Root),
                      idx + 1)
     ELSE PushEach(st, value, 1)

prependData(st, value, ref) ==
  LET idx == IF Truthy(ref) THEN findIndex(st.data, ref) ELSE 0
  IN IF idx # 0
     THEN SpliceBlock(st, value, StartOf(st.data[idx].range), idx)
     ELSE SpliceBlock(st, value,
                      IF Len(st.data) > 0
                      THEN StartOf(st.data[1].range) ELSE EndOf(Root),
                      1)

\* mutant: the record is spliced out, its Span is not deleted
RemoveOneLeavesSpan(st, key) ==
  LET idx == findIndex(st.data, key)
  IN IF idx = 0 THEN st ELSE [st EXCEPT !.data = RemoveAt(@, idx)]

\* const idx = data.findIndex(...); if (idx >= 0) data.splice(idx, 1)[0].range.delete()
RemoveOne(st, key) ==
  LET idx == findIndex(st.data, key)
  IN IF idx = 0 THEN st
     ELSE [st EXCEPT !.data = RemoveAt(@, idx),
                     !.dom = rangeDelete(@, st.data[idx].range),
                     !.log = Append(@, Ev("delete", st.data[idx].range,
                                          st.data[idx].value, NoValue))]

RECURSIVE removeFromData(_, _)
removeFromData(st, keys) ==
  IF keys = <<>> THEN st
  ELSE removeFromData(RemoveOne(st, Head(keys)), Tail(keys))

\* replace(packed, item, point), packed being data[i]
replace(st, i, item, point) ==
  LET old == st.data[i]
      ins == insertAt(st, item, point)
  IN IF ins.threw THEN ins
     ELSE [ins EXCEPT !.dom = rangeDelete(@, old.range),
                      !.log = Append(@, Ev("delete", old.range, old.value, NoValue)),
                      !.data[i] = Packed(item, st.next)]

\* mutant: update is called, the record keeps the old value
UpdateFoundKeepsOld(st, i, item) ==
  LET found == st.data[i]
  IN [st EXCEPT !.log = Append(@, Ev("update", found.range, item, found.value)),
                !.dom = mutateRange(@, found.range, UpdateResult(item, found.range))]

\* found.value = item; mutateRange(found.range, renderer.update(found.range,
\* item, old)).catch(console.error), found being data[i].  renderer.update
\* is an argument of mutateRange: when it raises, the value is already
\* stored and the exception leaves assignData (catch is on the promise).
UpdateFound(st, i, item) ==
  LET found == st.data[i]
      called == [st EXCEPT !.data[i].value = item,
                           !.log = Append(@, Ev("update", found.range, item, found.value))]
  IN IF item \in renderer.bad THEN [called EXCEPT !.threw = TRUE]
     ELSE [called EXCEPT
             !.dom = mutateRange(@, found.range, UpdateResult(item, found.range))]

\* mutant: the record is moved in data, its Span stays where it was
RelocateDataOnly(st, r, pivot) == st

\* const cached = found.range.detach(); pivot.parentNode.insertBefore(cached, pivot)
Relocate(st, r, pivot) ==
  LET cut == rangeDetach(st.dom, r)
  IN IF Pos(cut.rest, pivot) = 0
     THEN [st EXCEPT !.dom = cut.rest, !.threw = TRUE,
                     !.log = Append(@, Ev("move", r, NoValue, NoValue))]
     ELSE [st EXCEPT !.dom = insertBefore(cut.rest, cut.frag, pivot),
                     !.log = Append(@, Ev("move", r, NoValue, NoValue))]

\* a key search that begins one record after the target index
scanStartAfter(inputIdx) == inputIdx + 1

\* "let originIdx = inputIdx": where the key search of assignData begins
scanStart(inputIdx) == inputIdx

\* one turn of the loop of assignData, for value[i]
AssignOne(st, item, i) ==
  LET d == st.data
      originIdx == ScanFrom(d, extractKey(item), scanStart(i))
      pivot == IF i <= Len(d) THEN StartOf(d[i].range) ELSE EndOf(Root)
  IN IF originIdx # 0
     THEN IF originIdx = i
          THEN IF item # d[i].value
               THEN IF renderer.hasUpdate
                    THEN UpdateFound(st, i, item)
                    ELSE replace(st, i, item, StartOf(d[i].range))
               ELSE st
          ELSE LET found == d[originIdx]
                   moved == [st EXCEPT
                               !.data = InsertSeqAt(RemoveAt(d, originIdx), i, <<found>>)]
               IN IF item # found.value /\ ~renderer.hasUpdate
                  THEN replace(moved, i, item, pivot)
                  ELSE LET upd == IF item # found.value
                                  THEN UpdateFound(moved, i, item) ELSE moved
                       IN IF upd.threw THEN upd
                          ELSE Relocate(upd, found.range, pivot)
     ELSE LET ins == insertAt(st, item, pivot)
          IN IF ins.threw THEN ins
             ELSE [ins EXCEPT !.data = InsertSeqAt(@, i, <<Packed(item, st.next)>>)]

RECURSIVE AssignLoop(_, _, _)
AssignLoop(st, value, i) ==
  IF i > Len(value) \/ st.threw THEN st
  ELSE AssignLoop(AssignOne(st, value[i], i), value, i + 1)

\* mutant: the records beyond the target are dropped, their Spans are kept
DeleteEachKeepsSpans(st, items) == st

\* for (const item of data.splice(value.length, ...)) item.range.delete()
RECURSIVE DeleteEach(_, _)
DeleteEach(st, items) ==
  IF items = <<>> THEN st
  ELSE DeleteEach([st EXCEPT !.dom = rangeDelete(@, Head(items).range),
                             !.log = Append(@, Ev("delete", Head(items).range,
                                                  Head(items).value, NoValue))],
                  Tail(items))

assignData(st, value) ==
  LET looped == AssignLoop(st, value, 1)
  IN IF looped.threw THEN looped
     ELSE DeleteEach([looped EXCEPT !.data = SubSeq(@, 1, Len(value))],
                     SubSeq(looped.data, Len(value) + 1, Len(looped.data)))

\* mutant: the records are dropped, the rendered content stays
clearDataOnly(st) == [st EXCEPT !.data = <<>>]

\* case "clear": data.length = 0; root.static.deleteContents()
clearData(st) == [st EXCEPT !.data = <<>>, !.dom = deleteContents(@, Root)]

\* A ListBasicAction
Action(type, value, ref, keys) == [type |-> type, value |-> value, ref |-> ref, keys |-> keys]

processAction(st, action) ==
  CASE action.type = "assign" -> assignData(st, action.value)
    [] action.type = "append" -> appendData(st, action.value, action.ref)
    [] action.type = "prepend" -> prependData(st, action.value, action.ref)
    [] action.type = "remove" -> removeFromData(st, action.keys)
    [] action.type = "clear" -> clearData(st)
    [] OTHER -> st

\* mutant: no filtering
UniqueKeepsAll(d, value) == value

\* value.filter((x) => data.every((y) => extractKey(y.value) !== extractKey(x)))
Unique(d, value) ==
  SelectSeq(value, LAMBDA x : \A j \in 1..Len(d) : extractKey(d[j].value) # extractKey(x))

----------------------------------------------------------------------------
(* The list as a state machine *)

\* a call: the method, its arguments as the caller gave them, and whether
\* it raised an exception to the caller
Call(op, value, ref, keys, raised) ==
  [op |-> op, value |-> value, ref |-> ref, keys |-> keys, raised |-> raised]
NoCall == Call("none", <<>>, NoRef, <<>>, FALSE)
NotCleared == <<>>
NoPre == [data |-> <<>>, dom |-> <<>>]

\* The Span objects carry no meaning in their names: once an operation has
\* returned, the live Spans are named 1..n in list order, and the Spans
\* that are children without a record (left behind by an operation that
\* raised) are named after them in the order of the children.
Strays(d, nodes) ==
  SelectSeq(nodes, LAMBDA n : n.t = "start" /\ n.r # Root
                              /\ \A j \in 1..Len(d) : d[j].range # n.r)
CanonId(d, strays, r) ==
  IF \E j \in 1..Len(d) : d[j].range = r
  THEN CHOOSE j \in 1..Len(d) : d[j].range = r
  ELSE IF Pos(strays, StartOf(r)) # 0
  THEN Len(d) + Pos(strays, StartOf(r))
  ELSE Len(d) + Len(strays) + r
CanonNode(d, strays, n) ==
  IF n.t = "sib" \/ n.r = Root THEN n ELSE [n EXCEPT !.r = CanonId(d, strays, n.r)]
CanonData(d) == [j \in 1..Len(d) |-> Packed(d[j].value, j)]
CanonDom(d, nodes) ==
  LET strays == Strays(d, nodes)
  IN [j \in 1..Len(nodes) |-> CanonNode(d, strays, nodes[j])]

\* a name no Span among the records or the children has
FreshId(d, nodes) ==
  LET used == {Len(d)} \cup {nodes[p].r : p \in {q \in 1..Len(nodes) : nodes[q].t # "sib"}}
  IN 1 + CHOOSE m \in used : \A x \in used : x <= m

Start(d, nodes) ==
  [data |-> d, dom |-> nodes, log |-> <<>>, next |-> FreshId(d, nodes), threw |-> FALSE]

----------------------------------------------------------------------------
(* eval(...rest) and processList *)

\* A ListAction: a basic action, or null, an iterable, an async iterable, a
\* promise or a function, the last two holding the action they give in items
NoAction == Action("none", <<>>, NoRef, <<>>)
Basic(a) == [shape |-> "basic", action |-> a, items |-> <<>>]
Null == [shape |-> "null", action |-> NoAction, items |-> <<>>]
Sync(items) == [shape |-> "iterable", action |-> NoAction, items |-> items]
Async(items) == [shape |-> "asyncIterable", action |-> NoAction, items |-> items]
Promise(a) == [shape |-> "promise", action |-> NoAction, items |-> <<a>>]
Fn(a) == [shape |-> "function", action |-> NoAction, items |-> <<a>>]

\* An async generator object made by calling processList(action): its body
\* has not begun (suspendedStart) until something iterates the object.
Generator(action) == [action |-> action, status |-> "suspendedStart", at |-> 0]

NoEval == [pc |-> "idle", rest |-> <<>>, gens |-> <<>>, applied |-> <<>>,
           fnCalls |-> <<>>, start |-> NoPre]

\* "await x" with x an async generator object: the object has no then, so
\* the await gives the object back and nothing iterates it
awaitGenerator(gens, action) == Append(gens, Generator(action))

\* The body of the generator gens[g] of e runs from where it stands to its
\* next await, or to its end.  Gives the eval record and the list state.
processList(e, g, d, nodes) ==
  LET gen == e.gens[g]
      a == gen.action
      done == [e EXCEPT !.gens[g].status = "completed"]
      same == [e |-> done, data |-> d, dom |-> nodes]
  IN CASE a.shape = "null" -> same
       [] a.shape \in {"iterable", "asyncIterable"} ->
            IF gen.at < Len(a.items)
            THEN [e |-> [e EXCEPT !.gens = awaitGenerator(@, a.items[gen.at + 1]),
                                  !.gens[g].at = gen.at + 1],
                  data |-> d, dom |-> nodes]
            ELSE same
       [] a.shape = "promise" ->
            IF gen.at = 0
            THEN [e |-> [e EXCEPT !.gens = awaitGenerator(@, a.items[1]),
                                  !.gens[g].at = 1],
                  data |-> d, dom |-> nodes]
            ELSE same
       [] a.shape = "function" ->
            IF gen.at = 0
            THEN [e |-> [e EXCEPT !.gens = awaitGenerator(@, a.items[1]),
                                  !.gens[g].at = 1,
                                  !.fnCalls = Append(@, [fn |-> a, current |-> ValuesOf(d)])],
                  data |-> d, dom |-> nodes]
            ELSE same
       [] a.shape = "basic" ->
            LET st == processAction(Start(d, nodes), a.action)
            IN [e |-> [done EXCEPT !.applied = Append(@, a.action)],
                data |-> CanonData(st.data), dom |-> CanonDom(st.data, st.dom)]
       [] OTHER -> same

----------------------------------------------------------------------------
(* Construction and the public methods *)

\* no Span under study, no resolution chain started
NoSpan == [impl |-> "none"]
NoResolve ==
  [pc |-> "idle", entry |-> "none", kind |-> "none", rest |-> <<>>,
   stack |-> <<>>, tree |-> <<>>, log |-> <<>>, diag |-> <<>>, threw |-> FALSE,
   returned |-> FALSE, raised |-> FALSE, promise |-> "none"]
\* no promise of the renderer outstanding, no Reactor made, no value dispatched
NoPending == {}
NoReactor == [made |-> FALSE]
NoDispatch == [pc |-> "idle"]

\* list(renderer, initial): the root Span, then assign(initial) when given;
\* the list is mounted between two siblings.

EmptyDom == <<SibBefore, StartOf(Root), EndOf(Root), SibAfter>>
Initials == {<<>>, <<Val("A", 1)>>, <<Val("A", 1), Val("B", 1)>>}

Init ==
  /\ renderer \in Renderers
  /\ \E initial \in Initials :
       LET st == processAction(Start(<<>>, EmptyDom), Action("assign", initial, NoRef, <<>>))
       IN /\ data = CanonData(st.data)
          /\ dom = CanonDom(st.data, st.dom)
  /\ call = NoCall
  /\ pre = NoPre
  /\ log = <<>>
  /\ cleared = NotCleared
  /\ ev = NoEval
  /\ sp = NoSpan
  /\ rv = NoResolve
  /\ pending = NoPending
  /\ rx = NoReactor
  /\ dv = NoDispatch

ValueLists == SeqsUpTo(Values, MaxVals)
DistinctKeys(value) ==
  \A i, j \in 1..Len(value) : extractKey(value[i]) = extractKey(value[j]) => i = j
\* assign targets: every array with pairwise distinct keys, and the short
\* arrays that repeat a key
Targets == {t \in SeqsUpTo(Values, MaxLen) : DistinctKeys(t) \/ Len(t) <= MaxVals}
\* keys a caller may name: the keys of the values and one that no value has
CallerKeys == Keys \cup {"Z"}
KeyLists == SeqsUpTo(CallerKeys, MaxVals)

\* the children a Span takes: two markers and the rendered node
SpanSize == Len(<<StartOf(Root), Node("el", Root, NoValue), EndOf(Root)>>)
Grows(action) == IF action.type \in {"append", "prepend"} THEN Len(action.value) ELSE 0

\* The promises of the renderer that have not settled.  Each one is held by
\* a suspended mutateRange(range, promise): r is the Span it will write to,
\* v the item it was made for; moved tells that assign has relocated the
\* Span since (while the Span is a child), lost names the operation that
\* deleted the Span.
Promised(r, v, moved, lost) == [r |-> r, v |-> v, moved |-> moved, lost |-> lost]
LostSpan == 0 - 1

\* the promises outstanding once an operation with the steps steps has run
Outstanding(before, steps) ==
  {Promised(p.r, p.v,
            p.moved \/ \E k \in 1..Len(steps) : steps[k].e = "move" /\ steps[k].r = p.r,
            p.lost) : p \in before}
  \cup IF renderer.result = "promise"
       THEN {Promised(steps[k].r, steps[k].v, FALSE, "none") :
               k \in {j \in 1..Len(steps) : steps[j].e \in {"render", "update"}}}
       ELSE {}

\* the Spans are renamed when the operation op returns; a Span that is no
\* longer a child has no name any more
Renamed(p, d, nodes, op) ==
  IF p.r = LostSpan THEN p
  ELSE IF Pos(nodes, StartOf(p.r)) = 0 THEN Promised(LostSpan, p.v, FALSE, op)
  ELSE Promised(CanonId(d, Strays(d, nodes), p.r), p.v, p.moved, p.lost)

\* a public method, or an action handed to processAction, runs to its end
Run(op, value, ref, keys, action) ==
  /\ call = NoCall
  /\ Len(data) + Grows(action) <= MaxLen
  /\ \E st \in {processAction(Start(data, dom), action)} :
       /\ Len(st.dom) <= Len(EmptyDom) + MaxLen * SpanSize
       /\ data' = st.data
       /\ dom' = st.dom
       /\ log' = st.log
       /\ call' = Call(op, value, ref, keys, st.threw)
       /\ pending' = Outstanding(pending, st.log)
       /\ Cardinality(pending') <= MaxPending
  /\ pre' = [data |-> data, dom |-> dom]
  /\ UNCHANGED <<renderer, cleared, ev, sp, rv, rx, dv>>

assign(value) ==
  Run("assign", value, NoRef, <<>>, Action("assign", value, NoRef, <<>>))
append(value) ==
  Run("append", value, NoRef, <<>>, Action("append", value, NoRef, <<>>))
prepend(value) ==
  Run("prepend", value, NoRef, <<>>, Action("prepend", value, NoRef, <<>>))
appendUnique(value) ==
  Run("appendUnique", value, NoRef, <<>>,
      Action("append", Unique(data, value), NoRef, <<>>))
prependUnique(value) ==
  Run("prependUnique", value, NoRef, <<>>,
      Action("prepend", Unique(data, value), NoRef, <<>>))
remove(keys) ==
  Run("remove", <<>>, NoRef, keys, Action("remove", <<>>, NoRef, keys))
clear ==
  Run("clear", <<>>, NoRef, <<>>, Action("clear", <<>>, NoRef, <<>>))
\* the anchored forms { type, value, ref } exist as actions only
appendAfter(value, ref) ==
  Run("appendAfter", value, ref, <<>>, Action("append", value, ref, <<>>))
prependBefore(value, ref) ==
  Run("prependBefore", value, ref, <<>>, Action("prepend", value, ref, <<>>))

\* the operation has returned to its caller
Return ==
  /\ call # NoCall
  /\ data' = CanonData(data)
  /\ dom' = CanonDom(data, dom)
  /\ call' = NoCall
  /\ pre' = NoPre
  /\ log' = <<>>
  /\ cleared' = IF call.op = "clear" THEN <<Len(pre.data)>> ELSE NotCleared
  /\ pending' = {Renamed(p, data, dom, call.op) : p \in pending}
  /\ UNCHANGED <<renderer, ev, sp, rv, rx, dv>>

Next ==
  \/ \E value \in Targets : assign(value)
  \/ \E value \in ValueLists : append(value)
  \/ \E value \in ValueLists : prepend(value)
  \/ \E value \in ValueLists : appendUnique(value)
  \/ \E value \in ValueLists : prependUnique(value)
  \/ \E keys \in KeyLists : remove(keys)
  \/ clear
  \/ \E value \in ValueLists, ref \in CallerKeys : appendAfter(value, ref)
  \/ \E value \in ValueLists, ref \in CallerKeys : prependBefore(value, ref)
  \/ Return

Spec == Init /\ [][Next]_vars

\* What eval may be given: basic actions, and each composite shape around them
MaxEvalArgs == 2
BasicActions ==
  {Basic(Action("clear", <<>>, NoRef, <<>>)),
   Basic(Action("remove", <<>>, NoRef, <<"A">>)),
   Basic(Action("append", <<Val("B", 1)>>, "A", <<>>))}
EvalItems ==
  BasicActions \cup {Null}
    \cup {Sync(<<a>>) : a \in BasicActions} \cup {Async(<<a>>) : a \in BasicActions}
    \cup {Promise(a) : a \in BasicActions} \cup {Fn(a) : a \in BasicActions}
    \cup {Sync(<<a, Fn(b)>>) : a, b \in BasicActions}
EvalArgs == SeqsUpTo(EvalItems, MaxEvalArgs)

\* eval(...rest): mutateRange(root, processList(rest)).  rest is an array;
\* the for await of mutateRange iterates the generator made for it, whose
\* body runs to its first await within the call.
eval(rest) ==
  /\ ev.pc = "idle"
  /\ call = NoCall
  /\ \E r \in {processList([NoEval EXCEPT !.pc = "running", !.rest = rest,
                                          !.start = [data |-> data, dom |-> dom],
                                          !.gens = <<[Generator(Sync(rest))
                                                        EXCEPT !.status = "running"]>>],
                           1, data, dom)} :
       /\ ev' = r.e
       /\ data' = r.data
       /\ dom' = r.dom
  /\ UNCHANGED <<renderer, call, pre, log, cleared, sp, rv, pending, rx, dv>>

\* the await inside the iterated generator's body has given its value: the
\* body goes on to its next await or to its end
evalResume ==
  /\ ev.pc = "running"
  /\ ev.gens[1].status = "running"
  /\ call = NoCall
  /\ \E r \in {processList(ev, 1, data, dom)} :
       /\ ev' = r.e
       /\ data' = r.data
       /\ dom' = r.dom
  /\ UNCHANGED <<renderer, call, pre, log, cleared, sp, rv, pending, rx, dv>>

\* the iterated generator is done: the for await ends and the promise that
\* eval returned is fulfilled
evalSettle ==
  /\ ev.pc = "running"
  /\ ev.gens[1].status = "completed"
  /\ ev' = [ev EXCEPT !.pc = "done"]
  /\ UNCHANGED <<renderer, data, dom, call, pre, log, cleared, sp, rv, pending, rx, dv>>

\* the caller drops the settled promise
evalForget ==
  /\ ev.pc = "done"
  /\ ev' = NoEval
  /\ UNCHANGED <<renderer, data, dom, call, pre, log, cleared, sp, rv, pending, rx, dv>>

NextEval ==
  \/ \E rest \in EvalArgs : eval(rest)
  \/ evalResume
  \/ evalSettle
  \/ evalForget

SpecEval == Init /\ [][NextEval]_vars
----------------------------------------------------------------------------
(* Reading a state *)

IsMarker(n) == n.t \in {"start", "end"}

\* the markers among the nodes, in document order
Markers(nodes) == SelectSeq(nodes, IsMarker)

\* the markers of the Spans rs, laid out one Span after the other
RECURSIVE MarkersOf(_)
MarkersOf(rs) ==
  IF rs = <<>> THEN <<>> ELSE <<StartOf(Head(rs)), EndOf(Head(rs))>> \o MarkersOf(Tail(rs))

\* the root markers are children and the item Spans of d lie between
\* them, one after the other in the order of d, and nothing else does
LaidOut(d, nodes) ==
  /\ Pos(nodes, StartOf(Root)) # 0
  /\ Pos(nodes, StartOf(Root)) < Pos(nodes, EndOf(Root))
  /\ Markers(childNodes(nodes, Root)) = MarkersOf(RangesOf(d))
  /\ \A p \in 1..Len(nodes) :
       nodes[p].t \in {"el", "text"} =>
         /\ Pos(nodes, StartOf(nodes[p].r)) # 0
         /\ Pos(nodes, StartOf(nodes[p].r)) < p
         /\ p < Pos(nodes, EndOf(nodes[p].r))

\* Span r is gone from the children: markers and content
Gone(nodes, r) == \A p \in 1..Len(nodes) : nodes[p].t = "sib" \/ nodes[p].r # r

\* every record's Span shows the content made for the record's value
ShowsValues(d, nodes) ==
  \A j \in 1..Len(d) :
    LET c == childNodes(nodes, d[j].range)
    IN Len(c) = 1 /\ c[1].v = d[j].value

Logged(e) == {k \in 1..Len(log) : log[k].e = e}
Target == call.value

----------------------------------------------------------------------------
(* C1 *)

\* C1: after assign(target) with pairwise distinct target keys, data equals
\* target element for element, the item Spans lie between the root markers
\* in that order, and every former record whose key is not in target has
\* had its Span deleted, markers and content.
C1_AssignReachesTarget ==
  (call.op = "assign" /\ DistinctKeys(Target)) =>
    /\ ValuesOf(data) = Target
    /\ LaidOut(data, dom)
    /\ ShowsValues(data, dom)
    /\ \A j \in 1..Len(pre.data) :
         extractKey(pre.data[j].value) \notin {extractKey(Target[i]) : i \in 1..Len(Target)}
           => Gone(dom, pre.data[j].range)

\* a call of assign that moved a Span, rendered a new item and dropped an old one
C1_Witness ==
  /\ call.op = "assign" /\ DistinctKeys(Target)
  /\ Len(Target) >= 2
  /\ Logged("move") # {} /\ Logged("render") # {} /\ Logged("delete") # {}
  /\ ValuesOf(data) = Target
----------------------------------------------------------------------------
(* C2 *)

Count(seq, x) == Cardinality({i \in 1..Len(seq) : seq[i] = x})
Perm(a, b) == Len(a) = Len(b) /\ \A x \in Values : Count(a, x) = Count(b, x)

\* nothing rendered, updated or deleted; every record is a record of before,
\* with the value and the Span object it had; the Spans hold what they held
\* and lie in the target order
SpansOnlyRepositioned ==
  /\ Logged("render") = {} /\ Logged("update") = {} /\ Logged("delete") = {}
  /\ ValuesOf(data) = Target
  /\ \A i \in 1..Len(data) : \E j \in 1..Len(pre.data) : pre.data[j] = data[i]
  /\ \A j \in 1..Len(pre.data) :
       childNodes(dom, pre.data[j].range) = childNodes(pre.dom, pre.data[j].range)
  /\ LaidOut(data, dom)

\* C2 as stated: assign with a permutation of the current values only
\* repositions the existing Spans, whatever the current list is.
C2_PermutationKeepsSpans_AsStated ==
  (call.op = "assign" /\ Perm(Target, ValuesOf(pre.data))) => SpansOnlyRepositioned

\* C2 amended: when the keys of the current records are pairwise distinct,
\* assign with a permutation of the current values keeps every key's Span
\* object, renders nothing, creates and deletes no Span, and only
\* repositions the Spans into the target order.
C2_PermutationKeepsSpans ==
  (/\ call.op = "assign"
   /\ Perm(Target, ValuesOf(pre.data))
   /\ DistinctKeys(ValuesOf(pre.data))) => SpansOnlyRepositioned

\* three records with distinct keys were rotated
C2_Witness ==
  /\ call.op = "assign"
  /\ Len(pre.data) = 3 /\ DistinctKeys(ValuesOf(pre.data))
  /\ Target = <<pre.data[3].value, pre.data[1].value, pre.data[2].value>>
  /\ RangesOf(data) = <<3, 1, 2>>
  /\ Logged("move") # {}

----------------------------------------------------------------------------
(* C3 *)

SameKeysInPlace ==
  /\ Len(Target) = Len(pre.data)
  /\ \A i \in 1..Len(Target) : extractKey(Target[i]) = extractKey(pre.data[i].value)

\* the calls update(span, newValue, oldValue) owed: one per index whose value
\* reference changed, in index order
RECURSIVE UpdatesOwed(_)
UpdatesOwed(i) ==
  IF i > Len(Target) THEN <<>>
  ELSE (IF Target[i] # pre.data[i].value
        THEN <<Ev("update", pre.data[i].range, Target[i], pre.data[i].value)>>
        ELSE <<>>) \o UpdatesOwed(i + 1)

\* C3: when assign keeps every key at its index and the renderer has an
\* update function, update(span, new, old) is called exactly once for each
\* record whose value reference changed and for no other, render is not
\* called, every record keeps its Span object and the Spans keep their
\* sibling positions, and the records store the new values.
C3_UpdateInPlace ==
  (call.op = "assign" /\ renderer.hasUpdate /\ SameKeysInPlace) =>
    /\ log = UpdatesOwed(1)
    /\ RangesOf(data) = RangesOf(pre.data)
    /\ ValuesOf(data) = Target
    /\ Markers(dom) = Markers(pre.dom)
    /\ ShowsValues(data, dom)
    /\ ~call.raised

\* two records in place, one given a new value reference and one not
C3_Witness ==
  /\ call.op = "assign" /\ renderer.hasUpdate /\ SameKeysInPlace
  /\ Len(Target) >= 2
  /\ Len(log) = 1 /\ log[1].e = "update" /\ log[1].v # log[1].old
  /\ data[log[1].r].value = log[1].v

----------------------------------------------------------------------------
(* C4 *)

Listed(rec) == extractKey(rec.value) \in Elems(call.keys)

\* the records whose key is not listed stay as they were, in order, with
\* their Span objects, and the children are those of before without the
\* Spans of the listed records
ExactlyListedRemoved ==
  /\ data = SelectSeq(pre.data, LAMBDA rec : ~Listed(rec))
  /\ dom = SelectSeq(pre.dom,
                     LAMBDA n : n.t = "sib" \/ n.r = Root
                                \/ \E j \in 1..Len(data) : data[j].range = n.r)
  /\ (\A j \in 1..Len(pre.data) : ~Listed(pre.data[j])) => (data = pre.data /\ dom = pre.dom)
  /\ ~call.raised

\* C4 as stated: remove(keys) deletes exactly the records whose key is
\* listed, whatever the current list is.
C4_RemoveExactlyListed_AsStated == call.op = "remove" => ExactlyListedRemoved

\* C4 amended: when the keys of the current records are pairwise distinct,
\* remove(keys) deletes exactly the records whose key is listed; the others
\* keep their order, Span objects and sibling positions; a key that matches
\* no record changes nothing and raises nothing.
C4_RemoveExactlyListed ==
  (call.op = "remove" /\ DistinctKeys(ValuesOf(pre.data))) => ExactlyListedRemoved

\* the middle one of three records was removed, another listed key matched none
C4_Witness ==
  /\ call.op = "remove" /\ DistinctKeys(ValuesOf(pre.data))
  /\ Len(pre.data) = 3 /\ Len(call.keys) = 2
  /\ RangesOf(data) = <<1, 3>>
  /\ Gone(dom, 2)
  /\ \E k \in 1..2 : call.keys[k] \notin KeysOf(pre.data)
----------------------------------------------------------------------------
(* C5, C6 *)

\* the records made for the values vs, their Spans being the next new ones
NewRecords(vs) == [k \in 1..Len(vs) |-> Packed(vs[k], Len(pre.data) + k)]

\* the new records stand as one block after the first `at` records of
\* before, which are untouched, like the rest; the Spans lie in that order
BlockInsertedAfter(vs, at) ==
  /\ data = SubSeq(pre.data, 1, at) \o NewRecords(vs)
              \o SubSeq(pre.data, at + 1, Len(pre.data))
  /\ LaidOut(data, dom)
  /\ ShowsValues(data, dom)
  /\ SelectSeq(dom, LAMBDA n : n.t = "sib" \/ n.r <= Len(pre.data)) = pre.dom
  /\ ~call.raised

\* C5: append(values, afterKey) with afterKey matching a live record puts
\* the new records as one block, in the given order, right after that
\* record in data and in the rendered order; with afterKey absent or
\* matching no record the block goes to the tail.
C5_AppendAfterAnchor ==
  call.op \in {"append", "appendAfter"} =>
    LET idx == findIndex(pre.data, call.ref)
    IN BlockInsertedAfter(call.value, IF idx # 0 THEN idx ELSE Len(pre.data))

\* C6: prepend(values, beforeKey) with beforeKey matching a live record puts
\* the new records as one block, in the given order, right before that
\* record; with beforeKey absent or matching no record the block goes to
\* the head (the root's end when the list is empty).
C6_PrependBeforeAnchor ==
  call.op \in {"prepend", "prependBefore"} =>
    LET idx == findIndex(pre.data, call.ref)
    IN BlockInsertedAfter(call.value, IF idx # 0 THEN idx - 1 ELSE 0)

----------------------------------------------------------------------------
(* C7 *)

\* the incoming values whose key no record held when the call was made
NotHeld == SelectSeq(call.value, LAMBDA x : extractKey(x) \notin KeysOf(pre.data))

\* C7: appendUnique(values) appends at the tail, in order, exactly the
\* incoming values whose key equals no held key, and prependUnique puts
\* them at the head; the existing records and their Spans are untouched.
C7_UniqueFiltersHeldKeys ==
  /\ call.op = "appendUnique" => BlockInsertedAfter(NotHeld, Len(pre.data))
  /\ call.op = "prependUnique" => BlockInsertedAfter(NotHeld, 0)

\* appendUnique given a held key and a new one: only the new one was added
C7_Witness ==
  /\ call.op = "appendUnique"
  /\ Len(call.value) = 2 /\ Len(pre.data) = 2
  /\ extractKey(call.value[1]) \in KeysOf(pre.data)
  /\ extractKey(call.value[2]) \notin KeysOf(pre.data)
  /\ ValuesOf(data) = ValuesOf(pre.data) \o <<call.value[2]>>

----------------------------------------------------------------------------
(* C8 *)

\* C8: after clear() data is empty, nothing lies between the root markers,
\* the root markers are where they were in their parent, and an append
\* that follows renders its values between the root markers.
C8_ClearEmptiesAndRootSurvives ==
  /\ call.op = "clear" =>
       /\ data = <<>>
       /\ childNodes(dom, Root) = <<>>
       /\ dom = SelectSeq(pre.dom, LAMBDA n : n.t = "sib" \/ n.r = Root)
       /\ dom = EmptyDom
       /\ ~call.raised
  /\ (call.op = "append" /\ cleared # NotCleared) =>
       /\ pre.dom = EmptyDom
       /\ ValuesOf(data) = call.value
       /\ LaidOut(data, dom)
       /\ ShowsValues(data, dom)
       /\ ~call.raised

\* a list of at least two records was cleared and two values were appended
C8_Witness ==
  /\ call.op = "append"
  /\ cleared # NotCleared /\ cleared[1] >= 2
  /\ Len(call.value) = 2
  /\ Len(childNodes(dom, Root)) = 6
----------------------------------------------------------------------------
(* C9, C10 *)

\* What eval is said to do with one ListAction, on w = [data, dom, applied,
\* calls]: walk it in order, hand every basic action reached to
\* processAction, call every function reached with the values held then.
RECURSIVE Walk(_, _)
RECURSIVE WalkAll(_, _)
Walk(a, w) ==
  CASE a.shape = "basic" ->
         LET st == processAction(Start(w.data, w.dom), a.action)
         IN [w EXCEPT !.data = CanonData(st.data),
                      !.dom = CanonDom(st.data, st.dom),
                      !.applied = Append(@, a.action)]
    [] a.shape \in {"iterable", "asyncIterable", "promise"} -> WalkAll(a.items, w)
    [] a.shape = "function" ->
         WalkAll(a.items,
                 [w EXCEPT !.calls = Append(@, [fn |-> a, current |-> ValuesOf(w.data)])])
    [] OTHER -> w
WalkAll(items, w) ==
  IF items = <<>> THEN w ELSE WalkAll(Tail(items), Walk(Head(items), w))

Walked ==
  WalkAll(ev.rest, [data |-> ev.start.data, dom |-> ev.start.dom,
                    applied |-> <<>>, calls |-> <<>>])

\* C9: when the promise returned by eval(a1,...,an) completes, every basic
\* action reachable through nested sequences, asynchronous sequences,
\* deferred values and functions has been applied to the list, one at a
\* time in the order given.
C9_EvalAppliesEveryAction ==
  ev.pc = "done" =>
    /\ ev.applied = Walked.applied
    /\ data = Walked.data
    /\ dom = Walked.dom

\* C10: a function action given to eval has been called by the time eval
\* completes, once, with the values the list held after the earlier actions
\* of the same eval, and the action it returned has been applied.
C10_FunctionCalledWhenReached ==
  ev.pc = "done" =>
    /\ ev.fnCalls = Walked.calls
    /\ \A k \in 1..Len(ev.fnCalls) :
         \E m \in 1..Len(ev.applied) : Basic(ev.applied[m]) = ev.fnCalls[k].fn.items[1]

----------------------------------------------------------------------------
(* DynamicRange on its own.  One Span object, TheSpan, is followed        *)
(* through the operations of range.ts.  The tree is t = [kids, frag]:     *)
(* kids are the children of the parent element, frag the children of the  *)
(* document fragment that holds the Span (the one namedRange made, or the *)
(* one the last detach() made).  A node in neither has no parent.        *)

\* Content nodes a caller has at hand to put into the Span.
MaxNodes == 2

TheSpan == Root
NullNode == Node("null", 0, NoValue)
SpanNodes == {Node("el", i, NoValue) : i \in 1..MaxNodes}

\* The repository holds DynamicRange twice; the two differ in firstChild
\* and childNodes.  Which one a build loads is fixed when the Span is made.
Impls == {"range.ts", "part_001"}

Tree(k, f) == [kids |-> k, frag |-> f]
Outcome(t, threw) == [t |-> t, threw |-> threw]
Without(s, n) == SelectSeq(s, LAMBDA x : x # n)

\* Node.parentNode: "kids", "frag" or "none" (null)
ParentOf(t, n) ==
  IF Pos(t.kids, n) # 0 THEN "kids"
  ELSE IF Pos(t.frag, n) # 0 THEN "frag" ELSE "none"

\* Node.nextSibling, NullNode for null
nextSibling(t, n) ==
  LET p == ParentOf(t, n)
  IN IF p = "none" THEN NullNode
     ELSE LET i == Pos(t[p], n)
          IN IF i = Len(t[p]) THEN NullNode ELSE t[p][i + 1]

\* parent.removeChild(n), also the removal an insertion does first
removeChild(t, n) == Tree(Without(t.kids, n), Without(t.frag, n))

\* parent.insertBefore(node, child) of the DOM: NotFoundError when child
\* is not a child of parent; node leaves the place it had
domInsertBefore(t, p, node, child) ==
  IF child # NullNode /\ ParentOf(t, child) # p THEN Outcome(t, TRUE)
  ELSE LET point == IF child = node THEN nextSibling(t, node) ELSE child
           t1 == removeChild(t, node)
           at == IF point = NullNode THEN Len(t1[p]) + 1 ELSE Pos(t1[p], point)
       IN Outcome([t1 EXCEPT ![p] = InsertSeqAt(@, at, <<node>>)], FALSE)

\* get static(): setStartAfter / setEndBefore raise InvalidNodeTypeError
\* on a node without a parent
staticOk(t) ==
  /\ ParentOf(t, StartOf(TheSpan)) # "none"
  /\ ParentOf(t, EndOf(TheSpan)) # "none"

\* this.static.intersectsNode(child), child being a child of the parent:
\* true exactly for the children strictly between the two markers
intersectsNode(t, child) ==
  LET p == ParentOf(t, StartOf(TheSpan))
  IN /\ ParentOf(t, child) = p
     /\ ParentOf(t, EndOf(TheSpan)) = p
     /\ Pos(t[p], StartOf(TheSpan)) < Pos(t[p], child)
     /\ Pos(t[p], child) < Pos(t[p], EndOf(TheSpan))

\* get firstChild(), in the copy impl
getFirstChild(impl, t) ==
  LET first == nextSibling(t, StartOf(TheSpan))
  IN IF impl = "range.ts"
     THEN (IF first = EndOf(TheSpan) THEN NullNode ELSE first)
     ELSE (IF first = EndOf(TheSpan) THEN first ELSE NullNode)

\* the while (true) loop of childNodes in range.ts: reading nextSibling of
\* null raises TypeError
RECURSIVE childNodesLoop(_, _, _)
childNodesLoop(t, current, ret) ==
  IF current = NullNode THEN [val |-> ret, threw |-> TRUE]
  ELSE LET next == nextSibling(t, current)
       IN IF next = EndOf(TheSpan) THEN [val |-> ret, threw |-> FALSE]
          ELSE childNodesLoop(t, next, Append(ret, next))

\* get childNodes(), in the copy impl; the second copy leaves its loop
\* after the first step
getChildNodes(impl, t) ==
  IF impl = "range.ts" THEN childNodesLoop(t, StartOf(TheSpan), <<>>)
  ELSE LET current == nextSibling(t, StartOf(TheSpan))
       IN [val |-> IF current # EndOf(TheSpan) THEN <<current>> ELSE <<>>,
           threw |-> FALSE]

\* DynamicRange.insertBefore(node, child)
spanInsertBefore(t, node, child) ==
  LET parent == ParentOf(t, StartOf(TheSpan))
  IN IF parent = "none" THEN Outcome(t, FALSE)
     ELSE IF child # NullNode
     THEN IF ParentOf(t, child) # parent THEN Outcome(t, FALSE)
          ELSE IF ~staticOk(t) THEN Outcome(t, TRUE)
          ELSE IF intersectsNode(t, child)
               THEN domInsertBefore(t, parent, node, child)
               ELSE Outcome(t, FALSE)
     ELSE domInsertBefore(t, parent, node, EndOf(TheSpan))

\* DynamicRange.appendChild(node)
spanAppendChild(t, node) ==
  LET parent == ParentOf(t, StartOf(TheSpan))
  IN IF parent = "none" THEN Outcome(t, FALSE)
     ELSE domInsertBefore(t, parent, node, EndOf(TheSpan))

\* the do ... while (current !== this.end) loop of detach and the
\* appendChild of the end marker after it.  acc is the new fragment.
\* When the walk runs off the last sibling, current becomes null and the
\* next turn of the loop raises TypeError, the nodes moved so far staying
\* in the new fragment.
RECURSIVE detachLoop(_, _, _)
detachLoop(t, acc, current) ==
  LET next == nextSibling(t, current)
      t1 == removeChild(t, current)
      acc1 == Append(acc, current)
  IN IF next = EndOf(TheSpan)
     THEN [t |-> removeChild(t1, next), frag |-> Append(acc1, next), threw |-> FALSE]
     ELSE IF next = NullNode
     THEN [t |-> t1, frag |-> acc1, threw |-> TRUE]
     ELSE detachLoop(t1, acc1, next)

\* detach that leaves the end marker out of the fragment
spanDetachLosesEnd(t) ==
  LET o == detachLoop(t, <<>>, StartOf(TheSpan))
  IN Outcome(Tree(o.t.kids, SubSeq(o.frag, 1, Len(o.frag) - 1)), o.threw)

\* DynamicRange.detach(): the fragment it builds is the new frag
spanDetach(t) ==
  LET o == detachLoop(t, <<>>, StartOf(TheSpan))
  IN Outcome(Tree(o.t.kids, o.frag), o.threw)

\* DynamicRange.replace(node)
spanReplace(t, node) ==
  LET parent == ParentOf(t, StartOf(TheSpan))
  IN IF parent = "none" THEN Outcome(t, FALSE)
     ELSE IF ~staticOk(t) THEN Outcome(t, TRUE)
     ELSE LET t1 == [t EXCEPT ![parent] = deleteContents(@, TheSpan)]
              t2 == removeChild(removeChild(t1, StartOf(TheSpan)), node)
              i == Pos(t2[parent], EndOf(TheSpan))
          IN Outcome([t2 EXCEPT ![parent] = [@ EXCEPT ![i] = node]], FALSE)

\* delete() with the early return on a missing parent left out: the
\* removeChild on null raises
spanDeleteUnguarded(t) ==
  LET parent == ParentOf(t, StartOf(TheSpan))
  IN IF parent = "none" \/ ~staticOk(t) THEN Outcome(t, TRUE)
     ELSE Outcome([t EXCEPT ![parent] = rangeDelete(@, TheSpan)], FALSE)

\* DynamicRange.delete()
spanDelete(t) ==
  LET parent == ParentOf(t, StartOf(TheSpan))
  IN IF parent = "none" THEN Outcome(t, FALSE)
     ELSE IF ~staticOk(t) THEN Outcome(t, TRUE)
     ELSE Outcome([t EXCEPT ![parent] = rangeDelete(@, TheSpan)], FALSE)

\* the caller puts the fragment it holds back among the children:
\* parent.insertBefore(fragment, point)
reinsertFragment(t, point) ==
  LET at == IF point = NullNode THEN Len(t.kids) + 1 ELSE Pos(t.kids, point)
  IN Outcome(Tree(InsertSeqAt(t.kids, at, t.frag), <<>>), FALSE)

\* the last operation on the Span
Op(op, node, ref, threw, t, prev) ==
  [op |-> op, node |-> node, ref |-> ref, threw |-> threw, pre |-> t, prev |-> prev]
Prev(op, from, threw) == [op |-> op, from |-> from, threw |-> threw]
NoOp == Op("none", NullNode, NullNode, FALSE, Tree(<<>>, <<>>), Prev("none", "none", FALSE))

\* namedRange hands out the Span inside a fragment: start, end
InitSpan ==
  /\ renderer = PlainRenderer
  /\ data = <<>>
  /\ dom = EmptyDom
  /\ call = NoCall
  /\ pre = NoPre
  /\ log = <<>>
  /\ cleared = NotCleared
  /\ ev = NoEval
  /\ rv = NoResolve
  /\ pending = NoPending
  /\ rx = NoReactor
  /\ dv = NoDispatch
  /\ \E impl \in Impls :
       sp = [impl |-> impl, kids |-> <<SibBefore, SibAfter>>,
             frag |-> <<StartOf(TheSpan), EndOf(TheSpan)>>,
             held |-> TRUE, destroyed |-> FALSE, last |-> NoOp]

Now == Tree(sp.kids, sp.frag)

\* an operation with outcome o; held tells whether the caller holds the
\* fragment of the Span afterwards
SpanStep(op, node, ref, o, held) ==
  /\ sp' = [impl |-> sp.impl, kids |-> o.t.kids, frag |-> o.t.frag,
            held |-> held,
            destroyed |-> sp.destroyed \/ op \in {"delete", "replace"},
            last |-> Op(op, node, ref, o.threw, Now,
                        Prev(sp.last.op, ParentOf(sp.last.pre, StartOf(TheSpan)),
                             sp.last.threw))]
  /\ UNCHANGED <<renderer, data, dom, call, pre, log, cleared, ev, rv, pending, rx, dv>>

Refs == SpanNodes \cup {NullNode, SibBefore, SibAfter, StartOf(TheSpan), EndOf(TheSpan)}

InsertBefore ==
  \E node \in SpanNodes, ref \in Refs :
    SpanStep("insertBefore", node, ref, spanInsertBefore(Now, node, ref), sp.held)

AppendChild ==
  \E node \in SpanNodes :
    SpanStep("appendChild", node, NullNode, spanAppendChild(Now, node), sp.held)

\* prepend(node) of actions.ts applied to the Span:
\* el.insertBefore(fragment(node), el.firstChild)
PrependAction ==
  \E node \in SpanNodes :
    LET ref == getFirstChild(sp.impl, Now)
    IN SpanStep("prepend", node, ref, spanInsertBefore(Now, node, ref), sp.held)

\* append(node) of actions.ts applied to the Span:
\* el.appendChild(fragment(node))
AppendAction ==
  \E node \in SpanNodes :
    SpanStep("append", node, NullNode, spanAppendChild(Now, node), sp.held)

Detach ==
  LET o == spanDetach(Now)
  IN SpanStep("detach", NullNode, NullNode, o, ~o.threw)

\* what the caller does with a fragment it holds
Reinsert ==
  /\ sp.held
  /\ \E point \in Elems(sp.kids) \cup {NullNode} :
       SpanStep("reinsert", NullNode, point, reinsertFragment(Now, point), FALSE)

Replace ==
  \E node \in SpanNodes :
    SpanStep("replace", node, NullNode, spanReplace(Now, node), FALSE)

Delete == SpanStep("delete", NullNode, NullNode, spanDelete(Now), FALSE)

NextSpan ==
  \/ InsertBefore
  \/ AppendChild
  \/ PrependAction
  \/ AppendAction
  \/ Detach
  \/ Reinsert
  \/ Replace
  \/ Delete

SpecSpan == InitSpan /\ [][NextSpan]_vars

----------------------------------------------------------------------------
(* Reading a tree with a Span in it *)

\* both markers are children of one parent, start before end
Attached(t) ==
  LET p == ParentOf(t, StartOf(TheSpan))
  IN /\ p # "none"
     /\ ParentOf(t, EndOf(TheSpan)) = p
     /\ Pos(t[p], StartOf(TheSpan)) < Pos(t[p], EndOf(TheSpan))

\* neither marker has a parent
Parentless(t) ==
  /\ ParentOf(t, StartOf(TheSpan)) = "none"
  /\ ParentOf(t, EndOf(TheSpan)) = "none"

\* the nodes strictly between the markers of an attached Span
Between(t) == childNodes(t[ParentOf(t, StartOf(TheSpan))], TheSpan)

\* start, content, end of an attached Span
Block(t) == <<StartOf(TheSpan)>> \o Between(t) \o <<EndOf(TheSpan)>>

\* the children of the Span's parent that are outside the Span
Outside(t) ==
  LET p == ParentOf(t, StartOf(TheSpan))
  IN SubSeq(t[p], 1, Pos(t[p], StartOf(TheSpan)) - 1)
       \o SubSeq(t[p], Pos(t[p], EndOf(TheSpan)) + 1, Len(t[p]))

\* C11: as long as delete and replace were never called on it, an attached
\* Span reads back its content: childNodes is exactly the nodes strictly
\* between the markers, in document order, and firstChild is the first of
\* them, or null when there is none.
C11_ChildNodesAreBetweenMarkers ==
  (~sp.destroyed /\ Attached(Now)) =>
     /\ getChildNodes(sp.impl, Now) = [val |-> Between(Now), threw |-> FALSE]
     /\ getFirstChild(sp.impl, Now) =
          (IF Between(Now) = <<>> THEN NullNode ELSE Between(Now)[1])

\* C12: a delete() that follows a completed delete() raises nothing and
\* changes nothing: the children of the former parent are the nodes, in the
\* order, the first delete() left.
C12_SecondDeleteIsNoOp ==
  (sp.last.op = "delete" /\ sp.last.prev.op = "delete" /\ ~sp.last.prev.threw) =>
     /\ ~sp.last.threw
     /\ Now = sp.last.pre

C12_Witness ==
  /\ sp.last.op = "delete"
  /\ sp.last.prev = Prev("delete", "kids", FALSE)
  /\ ~sp.last.threw
  /\ sp.kids = <<SibBefore, SibAfter>>

\* C13: on a Span whose markers have no parent, insertBefore, appendChild,
\* detach, replace and delete raise nothing and leave every tree and the
\* markers as they were.
C13_ParentlessMutationIsNoOp ==
  (/\ Parentless(sp.last.pre)
   /\ sp.last.op \in {"insertBefore", "appendChild", "detach", "replace", "delete"}) =>
     /\ ~sp.last.threw
     /\ Now = sp.last.pre

\* C14: a Span whose markers have no parent reads as empty: firstChild is
\* null, childNodes is the empty sequence, and neither read raises.
C14_ParentlessReadsEmpty ==
  Parentless(Now) =>
     /\ getFirstChild(sp.impl, Now) = NullNode
     /\ getChildNodes(sp.impl, Now) = [val |-> <<>>, threw |-> FALSE]

\* the reference lies within the bounds of the Span, as a child of its parent
WithinBounds(t, ref) == Attached(t) /\ intersectsNode(t, ref)

\* C15: insertBefore with a reference inserts only when the reference is a
\* child of the Span's parent within the Span's bounds, and otherwise
\* changes nothing and raises nothing; after insertBefore or appendChild
\* (also through the prepend and append actions) the node is strictly
\* between the markers or nothing was inserted.
C15_InsertStaysWithinSpan ==
  (sp.last.op \in {"insertBefore", "appendChild", "prepend", "append"}) =>
     /\ (sp.last.ref # NullNode /\ ~WithinBounds(sp.last.pre, sp.last.ref)) =>
          (~sp.last.threw /\ Now = sp.last.pre)
     /\ WithinBounds(Now, sp.last.node) \/ Now = sp.last.pre

\* C16: detach() of an attached Span takes start, content and end out of
\* the parent into one fragment, in their order, the other children keeping
\* theirs; putting that fragment back at a position moves the whole Span
\* there: the same markers bound the same content in the same order.
C16_DetachMovesWholeSpan ==
  /\ (sp.last.op = "detach" /\ Attached(sp.last.pre)) =>
        /\ ~sp.last.threw
        /\ sp.frag = Block(sp.last.pre)
        /\ sp.kids = (IF ParentOf(sp.last.pre, StartOf(TheSpan)) = "kids"
                      THEN Outside(sp.last.pre) ELSE sp.last.pre.kids)
  /\ (sp.last.op = "reinsert") =>
        /\ ~sp.last.threw
        /\ Attached(Now)
        /\ ParentOf(Now, StartOf(TheSpan)) = "kids"
        /\ Block(Now) = sp.last.pre.frag
        /\ Outside(Now) = sp.last.pre.kids
        /\ nextSibling(Now, EndOf(TheSpan)) = sp.last.ref

C16_Witness ==
  /\ sp.last.op = "reinsert"
  /\ sp.last.prev = Prev("detach", "kids", FALSE)
  /\ sp.last.ref = SibBefore
  /\ Len(Between(Now)) = MaxNodes

----------------------------------------------------------------------------
(* The value resolver: mutate (mutable.ts) for an element, a fragment or  *)
(* a text node, mutateRange (actions.ts) for a Span.  One chain is        *)
(* followed: the async task a constructor starts, or the one mount        *)
(* awaits.  The chain is c = [stack, tree, log, diag, threw]: stack holds *)
(* the loops and awaits in progress (innermost last), tree the children   *)
(* of the target (for a Span: the children of its parent), log the leaf   *)
(* values reached, diag what console.error was given.                     *)

\* Longest argument list of a constructor or of mount.
MaxArgs == 2

\* A MutateAction.  "raise" stands for the abrupt end of a function call
\* or of the await of a rejected promise.
M(shape, x, items) == [shape |-> shape, x |-> x, items |-> items]
MNull == M("null", 0, <<>>)
MNode(n) == M("node", n, <<>>)
MPrim(k) == M("prim", k, <<>>)
MObject == M("object", 0, <<>>)
MSymbol == M("symbol", 0, <<>>)
MRaise == M("raise", 0, <<>>)
MSeq(items) == M("iterable", 0, items)
MAsync(items) == M("asyncIterable", 0, items)
MPromise(a) == M("promise", 0, <<a>>)
MRejected == M("promise", 0, <<MRaise>>)
MFn(a) == M("function", 0, <<a>>)
MFnThrows == M("function", 0, <<MRaise>>)

ElOf(n) == Node("el", n, NoValue)
TextOf(k) == Node("text", k, NoValue)

\* what console.error is given at the task boundary
ErrorDiag == M("error", 0, <<>>)

\* the children a target starts with: the Span is mounted between two
\* siblings, the host of mount has a child already
InitialTree(kind) ==
  IF kind = "range" THEN EmptyDom
  ELSE IF kind = "host" THEN <<SibBefore>> ELSE <<>>

Frame(k, items) == [kind |-> k, items |-> items, ready |-> (k = "seq")]
Leaf(tree, threw, diag) == [tree |-> tree, threw |-> threw, diag |-> diag]

\* mutate(target, action) for the actions that end within the call
mutate(kind, tree, a) ==
  CASE a.shape = "null" -> Leaf(tree, FALSE, FALSE)
    [] a.shape = "node" ->
         IF kind = "text" THEN Leaf(tree, TRUE, FALSE)
         ELSE Leaf(Append(Without(tree, ElOf(a.x)), ElOf(a.x)), FALSE, FALSE)
    [] a.shape = "prim" -> Leaf(<<TextOf(a.x)>>, FALSE, FALSE)
    [] a.shape = "object" -> Leaf(tree, FALSE, TRUE)
    [] OTHER -> Leaf(tree, TRUE, FALSE)

\* mutateRange(ctx, ret) for the actions that end within the call
mutateRangeLeaf(tree, a) ==
  CASE a.shape = "null" -> Leaf(tree, FALSE, FALSE)
    [] a.shape = "node" ->
         Leaf(mutateRange(Without(tree, ElOf(a.x)), TheSpan,
                          [kind |-> "node", node |-> ElOf(a.x)]), FALSE, FALSE)
    [] a.shape = "prim" ->
         Leaf(mutateRange(tree, TheSpan, [kind |-> "text", node |-> TextOf(a.x)]),
              FALSE, FALSE)
    [] a.shape = "object" -> Leaf(tree, FALSE, TRUE)
    [] OTHER -> Leaf(tree, TRUE, FALSE)

\* "await mutate(target, item)" started without the await: what the item
\* starts is left to run after everything else
startMutate(stack, frame) == <<frame>> \o stack

\* "await mutate(target, item)": the caller goes on only when everything
\* the item starts has ended
awaitMutate(stack, frame) == Append(stack, frame)

\* mutate / mutateRange called with action a
enter(kind, c, a) ==
  CASE a.shape \in {"iterable", "function"} ->
         [c EXCEPT !.stack = awaitMutate(@, Frame("seq", a.items))]
    [] a.shape = "asyncIterable" ->
         [c EXCEPT !.stack = awaitMutate(@, Frame("aseq", a.items))]
    [] a.shape = "promise" ->
         [c EXCEPT !.stack = awaitMutate(@, Frame("promise", a.items))]
    [] OTHER ->
         LET r == IF kind = "range" THEN mutateRangeLeaf(c.tree, a)
                  ELSE mutate(kind, c.tree, a)
         IN [c EXCEPT !.tree = r.tree,
                      !.threw = r.threw,
                      !.log = Append(@, [leaf |-> a, same |-> (r.tree = c.tree)]),
                      !.diag = IF r.diag THEN Append(@, a) ELSE @]

\* the chain runs until it awaits something only the environment gives (a
\* promise to settle, an async iterator to yield), ends or raises
RECURSIVE runChain(_, _)
runChain(kind, c) ==
  IF c.threw \/ c.stack = <<>> THEN c
  ELSE LET n == Len(c.stack)
           top == c.stack[n]
       IN IF top.items = <<>>
          THEN runChain(kind, [c EXCEPT !.stack = SubSeq(@, 1, n - 1)])
          ELSE IF ~top.ready THEN c
          ELSE runChain(kind,
                 enter(kind,
                       [c EXCEPT !.stack[n].items = Tail(@),
                                 !.stack[n].ready = (top.kind = "seq")],
                       Head(top.items)))

Ended(c) == c.threw \/ c.stack = <<>>

\* a call that lets what the body raises reach the caller
syncCall(c) ==
  [raised |-> c.threw,
   promise |-> IF c.threw THEN "none" ELSE IF Ended(c) THEN "fulfilled" ELSE "pending"]

\* calling an async function whose body has run to c: the call returns a
\* promise and never raises
asyncCall(c) ==
  [raised |-> FALSE,
   promise |-> IF c.threw THEN "rejected"
               ELSE IF Ended(c) THEN "fulfilled" ELSE "pending"]

\* .catch(console.error) on the promise of a constructor's task
catchError(promise, diag) ==
  IF promise = "rejected" THEN Append(diag, ErrorDiag) ELSE diag

\* the record of the chain after it ran to c
Resolved(entry, kind, rest, c) ==
  LET called == asyncCall(c)
  IN [pc |-> IF Ended(c) THEN "done" ELSE "running",
      entry |-> entry, kind |-> kind, rest |-> rest,
      stack |-> c.stack, tree |-> c.tree, log |-> c.log,
      diag |-> IF entry = "mount" THEN c.diag ELSE catchError(called.promise, c.diag),
      threw |-> c.threw,
      returned |-> ~called.raised,
      raised |-> called.raised,
      promise |-> IF entry = "mount" THEN called.promise ELSE "none"]

Chain(kind, rest) ==
  [stack |-> <<Frame("seq", rest)>>, tree |-> InitialTree(kind),
   log |-> <<>>, diag |-> <<>>, threw |-> FALSE]

ResolveItems ==
  {MNull, MNode(1), MPrim(1), MPrim(2), MObject, MSymbol, MFnThrows, MRejected,
   MSeq(<<MNode(2), MPrim(2)>>),
   MSeq(<<MPromise(MPrim(1)), MNode(2)>>),
   MAsync(<<MPrim(1), MPrim(2)>>),
   MAsync(<<MNode(2), MObject>>),
   MPromise(MSeq(<<MPrim(1), MNode(2)>>)),
   MFn(MAsync(<<MPrim(2)>>))}
ResolveArgs == SeqsUpTo(ResolveItems, MaxArgs)

\* a constructor: create the node, start the task, return the node
Construct(kind, rest) ==
  /\ rv.pc = "idle"
  /\ rv' = Resolved("construct", kind, rest, runChain(kind, Chain(kind, rest)))
  /\ UNCHANGED <<renderer, data, dom, call, pre, log, cleared, ev, sp, pending, rx, dv>>

html == \E rest \in ResolveArgs : Construct("html", rest)
text == \E rest \in ResolveArgs : Construct("text", rest)
fragment == \E rest \in ResolveArgs : Construct("fragment", rest)
range == \E rest \in ResolveArgs : Construct("range", rest)

\* mount(host, ...actions): await mutate(host, actions)
mount ==
  \E rest \in ResolveArgs :
    /\ rv.pc = "idle"
    /\ rv' = Resolved("mount", "host", rest, runChain("host", Chain("host", rest)))
    /\ UNCHANGED <<renderer, data, dom, call, pre, log, cleared, ev, sp, pending, rx, dv>>

\* the chain, awaiting in a frame of kind k, is given what it awaits
Resume(k) ==
  /\ rv.pc = "running"
  /\ rv.stack[Len(rv.stack)].kind = k
  /\ LET c == [stack |-> [rv.stack EXCEPT ![Len(rv.stack)].ready = TRUE],
               tree |-> rv.tree, log |-> rv.log, diag |-> rv.diag, threw |-> FALSE]
     IN rv' = Resolved(rv.entry, rv.kind, rv.rest, runChain(rv.kind, c))
  /\ UNCHANGED <<renderer, data, dom, call, pre, log, cleared, ev, sp, pending, rx, dv>>

\* the awaited promise settles
settle == Resume("promise")

\* the async iterator yields its next value
yield == Resume("aseq")

\* the caller lets go of the node or of mount's promise
forget ==
  /\ rv.pc = "done"
  /\ rv' = NoResolve
  /\ UNCHANGED <<renderer, data, dom, call, pre, log, cleared, ev, sp, pending, rx, dv>>

InitResolve ==
  /\ renderer = PlainRenderer
  /\ data = <<>>
  /\ dom = EmptyDom
  /\ call = NoCall
  /\ pre = NoPre
  /\ log = <<>>
  /\ cleared = NotCleared
  /\ ev = NoEval
  /\ sp = NoSpan
  /\ rv = NoResolve
  /\ pending = NoPending
  /\ rx = NoReactor
  /\ dv = NoDispatch

NextResolve ==
  \/ html
  \/ text
  \/ fragment
  \/ range
  \/ mount
  \/ settle
  \/ yield
  \/ forget

SpecResolve == InitResolve /\ [][NextResolve]_vars

----------------------------------------------------------------------------
(* Reading a resolution chain *)

LeafShapes == {"null", "node", "prim", "object", "symbol", "raise"}

\* the leaf values of an action in the order a strictly sequential,
\* depth-first resolution reaches them
RECURSIVE Flatten(_)
RECURSIVE FlattenAll(_)
Flatten(a) == IF a.shape \in LeafShapes THEN <<a>> ELSE FlattenAll(a.items)
FlattenAll(items) ==
  IF items = <<>> THEN <<>> ELSE Flatten(Head(items)) \o FlattenAll(Tail(items))

Reached == [i \in 1..Len(rv.log) |-> rv.log[i].leaf]
IsPrefix(s, t) == Len(s) <= Len(t) /\ s = SubSeq(t, 1, Len(s))

\* C17: the elements of a sequence are resolved strictly one after the
\* other, each to its very end (nested promises and async sequences
\* included) before the next begins: at every moment the leaves reached are
\* a prefix of the depth-first order of the arguments, all of it once the
\* chain has ended without an error.
C17_ResolvedInOrder ==
  /\ IsPrefix(Reached, FlattenAll(rv.rest))
  /\ (rv.pc = "done" /\ ~rv.threw) => Reached = FlattenAll(rv.rest)

C17_Witness ==
  /\ rv.pc = "running"
  /\ rv.rest = <<MSeq(<<MPromise(MPrim(1)), MNode(2)>>), MNode(1)>>
  /\ rv.kind = "html"
  /\ rv.tree = <<>>

TextNodes(nodes) == {i \in 1..Len(nodes) : nodes[i].t = "text"}

\* C18: a primitive resolved into a Span leaves exactly one text node, the
\* one of that value, between the markers, which stay where they are between
\* the untouched siblings; a Span never holds more than one text node made
\* from primitives.
C18_PrimitiveReplacesContent ==
  (rv.kind = "range") =>
     /\ (rv.log # <<>> /\ rv.log[Len(rv.log)].leaf.shape = "prim") =>
           rv.tree = <<SibBefore, StartOf(TheSpan),
                       TextOf(rv.log[Len(rv.log)].leaf.x),
                       EndOf(TheSpan), SibAfter>>
     /\ Cardinality(TextNodes(childNodes(rv.tree, TheSpan))) <= 1

C18_Witness ==
  /\ rv.kind = "range"
  /\ rv.rest = <<MNode(1), MAsync(<<MPrim(1), MPrim(2)>>)>>
  /\ Len(rv.log) = 3
  /\ rv.tree = <<SibBefore, StartOf(TheSpan), TextOf(2), EndOf(TheSpan), SibAfter>>

Unrecognised(a) == a.shape \in {"object", "symbol"}

\* a leaf that raises by the contract of the DOM or of the value itself
Raises(kind, a) == a.shape = "raise" \/ (kind = "text" /\ a.shape = "node")

\* C19: a value of no recognised shape is reported and skipped: it raises
\* nothing, leaves the target as it is, and the values after it in the
\* sequence are resolved all the same.
C19_UnrecognisedIsSkipped ==
  /\ \A i \in 1..Len(rv.log) :
       Unrecognised(rv.log[i].leaf) =>
          /\ rv.log[i].same
          /\ ~(rv.threw /\ i = Len(rv.log))
  /\ (/\ rv.pc = "done"
      /\ \A i \in 1..Len(FlattenAll(rv.rest)) : ~Raises(rv.kind, FlattenAll(rv.rest)[i])) =>
        Reached = FlattenAll(rv.rest)

\* C20: a constructor returns its node and raises nothing, whatever the
\* resolution of its arguments raises, which console.error is given; the
\* promise of mount is rejected when the resolution of an action raises.
C20_ConstructorsNeverRaise ==
  /\ (rv.entry = "construct") =>
        /\ rv.returned
        /\ ~rv.raised
        /\ rv.threw => (rv.diag # <<>> /\ rv.diag[Len(rv.diag)] = ErrorDiag)
  /\ (rv.entry = "mount" /\ rv.threw) => rv.promise = "rejected"

C20_Witness ==
  /\ rv.entry = "construct"
  /\ rv.rest = <<MFnThrows>>
  /\ rv.threw
  /\ rv.returned

----------------------------------------------------------------------------
(* C23, C24, C28: the list as a whole *)

\* A reference assign: the loop of assignData with the key of every target
\* element searched in the whole of data, from its first record.
RefAssignOne(st, item, i) ==
  LET d == st.data
      originIdx == findIndex(d, extractKey(item))
      pivot == IF i <= Len(d) THEN StartOf(d[i].range) ELSE EndOf(Root)
  IN IF originIdx # 0
     THEN IF originIdx = i
          THEN IF item # d[i].value
               THEN IF renderer.hasUpdate
                    THEN UpdateFound(st, i, item)
                    ELSE replace(st, i, item, StartOf(d[i].range))
               ELSE st
          ELSE LET found == d[originIdx]
                   moved == [st EXCEPT
                               !.data = InsertSeqAt(RemoveAt(d, originIdx), i, <<found>>)]
               IN IF item # found.value /\ ~renderer.hasUpdate
                  THEN replace(moved, i, item, pivot)
                  ELSE LET upd == IF item # found.value
                                  THEN UpdateFound(moved, i, item) ELSE moved
                       IN IF upd.threw THEN upd
                          ELSE Relocate(upd, found.range, pivot)
     ELSE LET ins == insertAt(st, item, pivot)
          IN IF ins.threw THEN ins
             ELSE [ins EXCEPT !.data = InsertSeqAt(@, i, <<Packed(item, st.next)>>)]

RECURSIVE RefAssignLoop(_, _, _)
RefAssignLoop(st, value, i) ==
  IF i > Len(value) \/ st.threw THEN st
  ELSE RefAssignLoop(RefAssignOne(st, value[i], i), value, i + 1)

RefAssign(st, value) ==
  LET looped == RefAssignLoop(st, value, 1)
  IN IF looped.threw THEN looped
     ELSE DeleteEach([looped EXCEPT !.data = SubSeq(@, 1, Len(value))],
                     SubSeq(looped.data, Len(value) + 1, Len(looped.data)))

\* C23: for a target with pairwise distinct keys, assign (key search from
\* the target index) and the reference assign (key search from the first
\* record) give the same records with the same Span objects, the same
\* children and the same renderer calls, Span deletions and moves in the
\* same order.
C23_ScanFromIndexEqualsFullScan ==
  (call.op = "assign" /\ DistinctKeys(Target)) =>
     LET ref == RefAssign(Start(pre.data, pre.dom), Target)
     IN /\ data = ref.data
        /\ dom = ref.dom
        /\ log = ref.log
        /\ call.raised = ref.threw

\* an assign that turns a list of three around
C23_Witness ==
  /\ call.op = "assign"
  /\ Len(pre.data) = MaxLen
  /\ DistinctKeys(ValuesOf(pre.data))
  /\ Len(Target) = MaxLen
  /\ \A i \in 1..MaxLen : Target[i] = pre.data[MaxLen + 1 - i].value
  /\ Logged("move") # {}

\* C24: with a renderer that raises nothing, after every operation the
\* Spans of the records lie between the root markers, one after the other
\* in the order of data, and every node between the root markers lies in
\* the Span it was rendered for.
C24_ListStaysConsistent == LaidOut(data, dom)

C24_Witness ==
  /\ call.op = "prependUnique"
  /\ Len(pre.data) = 2
  /\ Len(data) = MaxLen
  /\ ~DistinctKeys(ValuesOf(pre.data))

\* C28: appendUnique and prependUnique keep the keys of the records
\* pairwise distinct, also when the argument names a key more than once.
C28_UniqueKeepsKeysDistinct ==
  (call.op \in {"appendUnique", "prependUnique"} /\ DistinctKeys(ValuesOf(pre.data))) =>
     DistinctKeys(ValuesOf(data))

----------------------------------------------------------------------------
(* Reactor: an async iterator fed by push and ended by stop, return or     *)
(* throw.  rx holds its fields (wait: a Resolver is pending), the number   *)
(* of times onExit has run, the result of the last call and the calls      *)
(* received so far.                                                        *)


Reactor(done_flag, wait, exits, last, calls) ==
  [made |-> TRUE, done_flag |-> done_flag, wait |-> wait, exits |-> exits,
   last |-> last, calls |-> calls]

Called(name) ==
  /\ rx.made
  /\ Len(rx.calls) < MaxCalls
  /\ UNCHANGED <<renderer, data, dom, call, pre, log, cleared, ev, sp, rv, pending, dv>>

\* Reactor.create(handler), the handler returning a function (as clock's
\* "() => clearInterval(timer)"), which becomes onExit
create ==
  /\ ~rx.made
  /\ rx' = Reactor(FALSE, FALSE, 0, "create", <<>>)
  /\ UNCHANGED <<renderer, data, dom, call, pre, log, cleared, ev, sp, rv, pending, dv>>

push ==
  /\ Called("push")
  /\ rx' = IF rx.done_flag
           THEN Reactor(TRUE, rx.wait, rx.exits, "false", Append(rx.calls, "push"))
           ELSE IF rx.wait
           THEN Reactor(FALSE, FALSE, rx.exits, "true", Append(rx.calls, "push"))
           ELSE Reactor(FALSE, FALSE, rx.exits, "false", Append(rx.calls, "push"))

stop ==
  /\ Called("stop")
  /\ rx' = IF rx.done_flag
           THEN Reactor(TRUE, rx.wait, rx.exits, "void", Append(rx.calls, "stop"))
           ELSE Reactor(TRUE, FALSE, rx.exits, "void", Append(rx.calls, "stop"))

next ==
  /\ Called("next")
  /\ rx' = IF rx.done_flag
           THEN Reactor(TRUE, rx.wait, rx.exits, "done", Append(rx.calls, "next"))
           ELSE Reactor(FALSE, TRUE, rx.exits, "waiting", Append(rx.calls, "next"))

\* "if (!this.done_flag) this.onExit?.()": the runs of onExit after the line
exit(r) == IF ~r.done_flag THEN r.exits + 1 ELSE r.exits

return ==
  /\ Called("return")
  /\ rx' = Reactor(TRUE, FALSE, exit(rx), "done", Append(rx.calls, "return"))

throw ==
  /\ Called("throw")
  /\ rx' = Reactor(TRUE, FALSE, exit(rx), "done", Append(rx.calls, "throw"))

InitReactor ==
  /\ renderer = PlainRenderer
  /\ data = <<>>
  /\ dom = EmptyDom
  /\ call = NoCall
  /\ pre = NoPre
  /\ log = <<>>
  /\ cleared = NotCleared
  /\ ev = NoEval
  /\ sp = NoSpan
  /\ rv = NoResolve
  /\ pending = NoPending
  /\ rx = NoReactor
  /\ dv = NoDispatch

NextReactor == create \/ push \/ stop \/ next \/ return \/ throw
SpecReactor == InitReactor /\ [][NextReactor]_vars

\* C22: onExit has run once when the calls so far hold a return() or a
\* throw(), and has not run when they hold none; as this holds after every
\* call, the one run is at the first return() or throw().
C22_ExitHookRunsOnceAtFirstExit ==
  rx.made =>
    rx.exits = IF \E i \in 1..Len(rx.calls) : rx.calls[i] \in {"return", "throw"}
               THEN 1 ELSE 0

----------------------------------------------------------------------------
(* The list with a renderer that raises: render and update throw for the  *)
(* items in renderer.bad, synchronously, as a renderer whose render       *)
(* function fails on some input does.                                      *)

FaultyRenderers ==
  {[hasUpdate |-> FALSE, result |-> "node", bad |-> {Val("A", 2)}],
   [hasUpdate |-> TRUE, result |-> "text", bad |-> {Val("A", 2)}]}

InitFault ==
  /\ renderer \in FaultyRenderers
  /\ \E initial \in Initials :
       LET st == processAction(Start(<<>>, EmptyDom), Action("assign", initial, NoRef, <<>>))
       IN /\ data = CanonData(st.data)
          /\ dom = CanonDom(st.data, st.dom)
  /\ call = NoCall
  /\ pre = NoPre
  /\ log = <<>>
  /\ cleared = NotCleared
  /\ ev = NoEval
  /\ sp = NoSpan
  /\ rv = NoResolve
  /\ pending = NoPending
  /\ rx = NoReactor
  /\ dv = NoDispatch

SpecFault == InitFault /\ [][Next]_vars

\* the operation called render or update for an item the renderer raises on
RendererRaised ==
  \E k \in 1..Len(log) : log[k].e \in {"render", "update"} /\ log[k].v \in renderer.bad

\* C21: when render or update raises during assign, append, prepend,
\* appendUnique or prependUnique, the operation returns normally to its
\* caller (the error is only reported as a diagnostic).
C21_RendererErrorNotSurfaced ==
  (call.op \in {"assign", "append", "prepend", "appendUnique", "prependUnique"}
     /\ RendererRaised) => ~call.raised

\* C29: when render or update raises in the middle of assign, the Spans of
\* the records still lie between the root markers in the order of data.
C29_FailedAssignLeavesListConsistent ==
  (call.op = "assign" /\ RendererRaised) => LaidOut(data, dom)

----------------------------------------------------------------------------
(* The list with a renderer whose render and update return promises: the  *)
(* Span is inserted empty, and the text the promise gives is written by   *)
(* the suspended mutateRange when the promise settles, in any order.      *)

AsyncRenderers ==
  {[hasUpdate |-> FALSE, result |-> "promise", bad |-> {}],
   [hasUpdate |-> TRUE, result |-> "promise", bad |-> {}]}

InitAsync ==
  /\ renderer \in AsyncRenderers
  /\ \E initial \in Initials :
       LET st == processAction(Start(<<>>, EmptyDom), Action("assign", initial, NoRef, <<>>))
       IN /\ data = CanonData(st.data)
          /\ dom = CanonDom(st.data, st.dom)
          /\ pending = {Renamed(p, st.data, st.dom, "none") : p \in Outstanding({}, st.log)}
  /\ call = NoCall
  /\ pre = NoPre
  /\ log = <<>>
  /\ cleared = NotCleared
  /\ ev = NoEval
  /\ sp = NoSpan
  /\ rv = NoResolve
  /\ rx = NoReactor
  /\ dv = NoDispatch

\* what a promise of the renderer gives for the item v: a primitive
Settled(r, v) == [kind |-> "text", node |-> Node("text", r, v)]

\* "return mutateRange(ctx, await ret)" resumes: the promise p has settled.
\* An exception rejects the promise of mutateRange, which is caught
\* (".catch(console.error)"): nobody is called back.
deliver(p) ==
  /\ call = NoCall
  /\ p \in pending
  /\ dom' = mutateRange(dom, p.r, Settled(p.r, p.v))
  /\ pending' = pending \ {p}
  /\ call' = Call("deliver", <<p.v>>, NoRef, <<>>, FALSE)
  /\ pre' = [data |-> data, dom |-> dom]
  /\ log' = <<[Ev("deliver", p.r, p.v, NoValue) EXCEPT !.old = p]>>
  /\ UNCHANGED <<renderer, data, cleared, ev, sp, rv, rx, dv>>

\* the targets handed to assign while promises are outstanding
AsyncTargets == {t \in ValueLists : DistinctKeys(t) /\ \A i \in 1..Len(t) : extractKey(t[i]) # ""}

NextAsync ==
  \/ \E value \in AsyncTargets : assign(value)
  \/ \E keys \in KeyLists : remove(keys)
  \/ clear
  \/ \E p \in pending : deliver(p)
  \/ Return

SpecAsync == InitAsync /\ [][NextAsync]_vars

\* the promise that has just settled
Delivered == log[1].old
\* the contents of every Span of a record but r are what they were
OthersUntouched(r) ==
  \A j \in 1..Len(data) :
    data[j].range # r => childNodes(dom, data[j].range) = childNodes(pre.dom, data[j].range)

\* C25: with a renderer whose update returns promises, once no promise is
\* outstanding every record's Span shows the content made for the value
\* assigned last, in whatever order the promises settled.
C25_LatestValueShownWhenSettled ==
  (renderer.hasUpdate /\ renderer.result = "promise" /\ call = NoCall /\ pending = {}) =>
     ShowsValues(data, dom)

\* C26: a promise that settles after its Span was deleted (by remove, by
\* assign or by clear) changes no child of the parent that holds the list.
C26_LateResultForDeletedSpanChangesNothing ==
  (call.op = "deliver" /\ ~parentNode(pre.dom, Delivered.r)) => dom = pre.dom

\* a promise settles whose Span clear() removed, the list holding records again
C26_Witness ==
  /\ call.op = "deliver"
  /\ Delivered.lost = "clear"
  /\ Len(data) >= 1

\* C27: what a promise gives for an item is written inside the item's own
\* Span, wherever assign has moved that Span meanwhile: the Span holds the
\* text and nothing else, no other Span's content changes and no node lies
\* outside the Spans.
C27_AsyncContentLandsInOwnSpan ==
  (call.op = "deliver" /\ parentNode(pre.dom, Delivered.r)) =>
     /\ childNodes(dom, Delivered.r) = <<Node("text", Delivered.r, Delivered.v)>>
     /\ OthersUntouched(Delivered.r)
     /\ Markers(dom) = Markers(pre.dom)
     /\ LaidOut(data, dom)

\* the promise settles after assign has relocated its Span
C27_Witness ==
  /\ call.op = "deliver"
  /\ Delivered.moved
  /\ parentNode(pre.dom, Delivered.r)
  /\ Len(data) >= 2

----------------------------------------------------------------------------
(* The dispatch of mutate and mutateRange on the shape of the value.  A   *)
(* value is described by what the tests of the two functions look at:    *)
(* its typeof, whether it is null, whether it is a Node, whether it has  *)
(* Symbol.iterator, Symbol.asyncIterator and a property "then" ("data": *)
(* a "then" that is no function, "method": a function).                  *)

Shape(type, isNull, isNode, iter, aiter, then) ==
  [type |-> type, isNull |-> isNull, isNode |-> isNode, iter |-> iter,
   aiter |-> aiter, then |-> then]

\* undefined, a boolean, a string (iterable as every string is), a number,
\* a bigint, a symbol, null, and the objects and functions with every
\* combination of the properties
Shapes ==
  {Shape(t, FALSE, FALSE, t = "string", FALSE, "none") :
     t \in {"undefined", "boolean", "string", "number", "bigint", "symbol"}}
  \cup {Shape("object", TRUE, FALSE, FALSE, FALSE, "none")}
  \cup {Shape("object", FALSE, n, i, a, th) :
          n \in BOOLEAN, i \in BOOLEAN, a \in BOOLEAN, th \in {"none", "data", "method"}}
  \cup {Shape("function", FALSE, FALSE, i, a, th) :
          i \in BOOLEAN, a \in BOOLEAN, th \in {"none", "data", "method"}}

\* the tests the two if-chains share, up to the asynchronous sequence; the
\* operator "in" raises a TypeError on a symbol (a primitive)
commonCase(v) ==
  IF v.type = "undefined" \/ v.isNull \/ v.type = "boolean" THEN "skip"
  ELSE IF v.isNode THEN "node"
  ELSE IF v.type \in {"string", "number", "bigint"} THEN "primitive"
  ELSE IF v.type = "symbol" THEN "raise"
  ELSE IF v.iter THEN "iterable"
  ELSE IF v.aiter THEN "asyncIterable"
  ELSE "later"

\* the if-chain of mutate: '"then" in action'
mutateCase(v) ==
  IF commonCase(v) # "later" THEN commonCase(v)
  ELSE IF v.then # "none" THEN "promise"
  ELSE IF v.type = "function" THEN "function"
  ELSE "invalid"

\* the if-chain of mutateRange: '"then" in ret && typeof ret.then === "function"'
mutateRangeCase(v) ==
  IF commonCase(v) # "later" THEN commonCase(v)
  ELSE IF v.then = "method" THEN "promise"
  ELSE IF v.type = "function" THEN "function"
  ELSE "invalid"

InitDispatch ==
  /\ renderer = PlainRenderer
  /\ data = <<>>
  /\ dom = EmptyDom
  /\ call = NoCall
  /\ pre = NoPre
  /\ log = <<>>
  /\ cleared = NotCleared
  /\ ev = NoEval
  /\ sp = NoSpan
  /\ rv = NoResolve
  /\ pending = NoPending
  /\ rx = NoReactor
  /\ dv = NoDispatch

Dispatched(v, byMutate, byMutateRange) ==
  [pc |-> "called", value |-> v, byMutate |-> byMutate, byMutateRange |-> byMutateRange]

\* mutate(target, v), with a value not seen yet or with the value that
\* mutateRange has been given
dispatchMutate(v) ==
  /\ \/ dv = NoDispatch
     \/ dv.pc = "called" /\ dv.value = v /\ dv.byMutate = "none"
  /\ dv' = Dispatched(v, mutateCase(v),
                      IF dv = NoDispatch THEN "none" ELSE dv.byMutateRange)
  /\ UNCHANGED <<renderer, data, dom, call, pre, log, cleared, ev, sp, rv, pending, rx>>

\* mutateRange(ctx, v), likewise
dispatchMutateRange(v) ==
  /\ \/ dv = NoDispatch
     \/ dv.pc = "called" /\ dv.value = v /\ dv.byMutateRange = "none"
  /\ dv' = Dispatched(v, IF dv = NoDispatch THEN "none" ELSE dv.byMutate,
                      mutateRangeCase(v))
  /\ UNCHANGED <<renderer, data, dom, call, pre, log, cleared, ev, sp, rv, pending, rx>>

\* both have returned; the next value
dispatchDone ==
  /\ dv.pc = "called"
  /\ dv.byMutate # "none"
  /\ dv.byMutateRange # "none"
  /\ dv' = NoDispatch
  /\ UNCHANGED <<renderer, data, dom, call, pre, log, cleared, ev, sp, rv, pending, rx>>

NextDispatch ==
  \/ \E v \in Shapes : dispatchMutate(v)
  \/ \E v \in Shapes : dispatchMutateRange(v)
  \/ dispatchDone

SpecDispatch == InitDispatch /\ [][NextDispatch]_vars

\* the case the precedence order gives: absent/boolean, tree node,
\* primitive, synchronous sequence, asynchronous sequence, promise-like (a
\* "then" method), function, otherwise invalid
FirstMatch(v) ==
  IF v.type = "undefined" \/ v.isNull \/ v.type = "boolean" THEN "skip"
  ELSE IF v.isNode THEN "node"
  ELSE IF v.type \in {"string", "number", "bigint"} THEN "primitive"
  ELSE IF v.iter THEN "iterable"
  ELSE IF v.aiter THEN "asyncIterable"
  ELSE IF v.then = "method" THEN "promise"
  ELSE IF v.type = "function" THEN "function"
  ELSE "invalid"

\* C30: mutate and mutateRange both handle a value by the first case of
\* the precedence order that it fits, hence by the same case.
C30_SameFirstMatchingCase ==
  (dv.pc = "called" /\ dv.byMutate # "none" /\ dv.byMutateRange # "none") =>
     /\ dv.byMutate = FirstMatch(dv.value)
     /\ dv.byMutateRange = FirstMatch(dv.value)

----------------------------------------------------------------------------
(* BufferedReactor: a Reactor that queues the values pushed while nobody  *)
(* waits.  rx holds the fields, the values accepted by push (pushed) and  *)
(* one slot for every next() call, in call order (got): the result the   *)
(* promise it returned has resolved with, or "pending".  The next() calls *)
(* made while a Resolver is pending all hold that Resolver's promise.     *)

\* values a producer pushes: two truthy strings, the empty string, undefined
Pushable == {"a", "b", "", NoRef}

Buffered(done_flag, wait, queue, exits, pushed, got, calls) ==
  [made |-> TRUE, done_flag |-> done_flag, wait |-> wait, queue |-> queue,
   exits |-> exits, pushed |-> pushed, got |-> got, calls |-> calls]

Result(state, value) == [state |-> state, value |-> value]
\* this.wait.resolve(result): every promise taken from the Resolver settles
Resolve(got, result) ==
  [k \in 1..Len(got) |-> IF got[k].state = "pending" THEN result ELSE got[k]]

\* listen(node, event): new BufferedReactor(() => controller.abort())
listen ==
  /\ ~rx.made
  /\ rx' = Buffered(FALSE, FALSE, <<>>, 0, <<>>, <<>>, <<>>)
  /\ UNCHANGED <<renderer, data, dom, call, pre, log, cleared, ev, sp, rv, pending, dv>>

bufferedPush(input) ==
  /\ Called("push")
  /\ rx' = IF rx.done_flag
           THEN [rx EXCEPT !.calls = Append(@, "push")]
           ELSE IF rx.wait
           THEN [rx EXCEPT !.wait = FALSE,
                           !.got = Resolve(@, Result("value", input)),
                           !.pushed = Append(@, input),
                           !.calls = Append(@, "push")]
           ELSE [rx EXCEPT !.queue = Append(@, input),
                           !.pushed = Append(@, input),
                           !.calls = Append(@, "push")]

\* what "this.queue.shift()" leaves in the queue
shift(queue) == IF queue = <<>> THEN queue ELSE Tail(queue)

\* "const value = this.queue.shift(); if (value) ...": an empty queue
\* gives undefined
bufferedNext ==
  /\ Called("next")
  /\ LET value == IF rx.queue = <<>> THEN NoRef ELSE Head(rx.queue)
         shifted == [rx EXCEPT !.queue = shift(@), !.calls = Append(@, "next")]
     IN rx' = IF Truthy(value)
              THEN [shifted EXCEPT !.got = Append(@, Result("value", value))]
              ELSE IF rx.done_flag
              THEN [shifted EXCEPT !.got = Append(@, Result("done", NoRef))]
              ELSE [shifted EXCEPT !.wait = TRUE,
                                   !.got = Append(@, Result("pending", NoRef))]

bufferedStop ==
  /\ Called("stop")
  /\ rx' = IF rx.done_flag
           THEN [rx EXCEPT !.calls = Append(@, "stop")]
           ELSE [rx EXCEPT !.done_flag = TRUE, !.wait = FALSE,
                           !.got = Resolve(@, Result("done", NoRef)),
                           !.calls = Append(@, "stop")]

bufferedReturn ==
  /\ Called("return")
  /\ rx' = [rx EXCEPT !.exits = exit(rx), !.done_flag = TRUE, !.wait = FALSE,
                      !.got = Resolve(@, Result("done", NoRef)),
                      !.calls = Append(@, "return")]

bufferedThrow ==
  /\ Called("throw")
  /\ rx' = [rx EXCEPT !.exits = exit(rx), !.done_flag = TRUE, !.wait = FALSE,
                      !.got = Resolve(@, Result("done", NoRef)),
                      !.calls = Append(@, "throw")]

NextBuffered ==
  \/ listen
  \/ \E input \in Pushable : bufferedPush(input)
  \/ bufferedNext
  \/ bufferedStop
  \/ bufferedReturn
  \/ bufferedThrow

SpecBuffered == InitReactor /\ [][NextBuffered]_vars

\* the values the next() calls have returned, in call order
RECURSIVE ValuesGot(_)
ValuesGot(got) ==
  IF got = <<>> THEN <<>>
  ELSE IF Head(got).state = "value" THEN <<Head(got).value>> \o ValuesGot(Tail(got))
  ELSE ValuesGot(Tail(got))

\* C31: the values returned by the successive next() calls are a prefix of
\* the values pushed before the BufferedReactor was done: none skipped,
\* none repeated, whatever the values are.
C31_BufferedDeliversInPushOrder ==
  rx.made => IsPrefix(ValuesGot(rx.got), rx.pushed)
====
